---------------------------- MODULE Spec2Model ----------------------------
(***************************************************************************)
(* scripts/gpo_member_photos.py: reconciling the entries of the GPO        *)
(* pictorial guide with the congress-legislators dataset                   *)
(* (match_bioguide_id) and the matching loop of the script's main block.   *)
(*                                                                         *)
(* A Python str is modelled as the tuple of its characters, so that        *)
(* str.replace(" ", ""), the substring test `a in b` and == are computed   *)
(* on characters.  A dict is a function; an optional key is a key that is  *)
(* or is not in its DOMAIN.                                                *)
(***************************************************************************)
EXTENDS Integers, Sequences, FiniteSets, TLC

(***************************************************************************)
(* Bounds of the model.                                                    *)
(***************************************************************************)
MaxLegislators == 2   \* longest legislators_current that is enumerated
MaxMembers == 2       \* longest members_pictorial that is enumerated
MaxTerms == 2         \* longest terms history that is enumerated

(***************************************************************************)
(* Names.                                                                  *)
(***************************************************************************)
Dan == <<"D", "a", "n">>
Daniel == <<"D", "a", "n", "i", "e", "l">>
DaSpaceN == <<"D", "a", " ", "n">>
dan == <<"d", "a", "n">>
Nick == <<"N", "i", "c", "k">>
Nicolas == <<"N", "i", "c", "o", "l", "a", "s">>
Mike == <<"M", "i", "k", "e">>
Michael == <<"M", "i", "c", "h", "a", "e", "l">>
Richard == <<"R", "i", "c", "h", "a", "r", "d">>
Rich == <<"R", "i", "c", "h">>
Christopher == <<"C", "h", "r", "i", "s", "t", "o", "p", "h", "e", "r">>
Chris == <<"C", "h", "r", "i", "s">>

\* The names the enumerated records are built from: a nickname-table key
\* (Daniel), its value (Dan, also a substring of Daniel), a name with an
\* internal space (strips to Dan) and a name differing from Dan by case only.
Names == {Dan, Daniel, DaSpaceN, dan}

(***************************************************************************)
(* str operations.                                                         *)
(***************************************************************************)
\* Mutant: the spaces of the candidate's last name are kept.
KeepSpaces(s) == s

\* s.replace(" ", "")
IsNotSpace(c) == c # " "
RemoveSpaces(s) == SelectSeq(s, IsNotSpace)

\* sub in s
Contains(sub, s) ==
    \E k \in 0..(Len(s) - Len(sub)) : SubSeq(s, k + 1, k + Len(sub)) = sub

\* key in d, for a dict d
HasKey(d, key) == key \in DOMAIN d

(***************************************************************************)
(* match_bioguide_id                                                       *)
(***************************************************************************)
common_nicknames ==
    (Nick :> Nicolas) @@ (Daniel :> Dan) @@ (Mike :> Michael)
        @@ (Richard :> Rich) @@ (Christopher :> Chris)

\* Mutant: the first name is taken for the last name.
m_name_first(m) == RemoveSpaces(m.name.first)

m_name_last(m) == RemoveSpaces(m.name.last)

\* Lines 105-126: which branch of the direct-order test sets name_matches,
\* "none" when none does.
DirectOrder(m, member_pictorial) ==
    IF m_name_last(m) = member_pictorial.lastName
    THEN IF \/ m.name.first = member_pictorial.firstName
            \/ /\ HasKey(m.name, "nickname")
               /\ m.name.nickname = member_pictorial.firstName
         THEN "first_or_nickname"
         ELSE IF Contains(member_pictorial.firstName, m.name.first)
         THEN "in_first"
         ELSE IF /\ HasKey(m.name, "middle")
                 /\ Contains(member_pictorial.firstName, m.name.middle)
         THEN "in_middle"
         ELSE IF /\ HasKey(common_nicknames, member_pictorial.firstName)
                 /\ common_nicknames[member_pictorial.firstName] = m.name.first
         THEN "common_nickname"
         ELSE "none"
    ELSE "none"

\* Mutant: the swapped-order test without its nickname alternative.
SwappedOrderLastNameOnly(m, member_pictorial, name_matches) ==
    /\ ~name_matches
    /\ m.name.first = member_pictorial.lastName
    /\ m_name_last(m) = member_pictorial.firstName

\* Mutant: the swapped-order test is made whatever the direct-order test
\* found.
SwappedOrderAlways(m, member_pictorial, name_matches) ==
    /\ m.name.first = member_pictorial.lastName
    /\ \/ m_name_last(m) = member_pictorial.firstName
       \/ /\ HasKey(m.name, "nickname")
          /\ m.name.nickname = member_pictorial.firstName

\* Lines 129-134: the swapped-order test, given name_matches as the
\* direct-order test left it.
SwappedOrder(m, member_pictorial, name_matches) ==
    /\ ~name_matches
    /\ m.name.first = member_pictorial.lastName
    /\ \/ m_name_last(m) = member_pictorial.firstName
       \/ /\ HasKey(m.name, "nickname")
          /\ m.name.nickname = member_pictorial.firstName

\* Lines 103-134: the assignment that set name_matches for candidate m.
NameRule(m, member_pictorial) ==
    LET direct == DirectOrder(m, member_pictorial)
    IN  IF SwappedOrder(m, member_pictorial, direct # "none")
        THEN "swapped"
        ELSE direct

mType(member_pictorial) ==
    IF member_pictorial.memberType = "Senator" THEN "sen" ELSE "rep"

\* Mutant: m["terms"][-1] is evaluated before name_matches is tested.
RaisesIndexErrorBeforeNameTest(m, name_matches) == Len(m.terms) = 0

\* Line 139: m["terms"][-1] is evaluated only under `if name_matches`, and
\* raises IndexError on an empty list.
RaisesIndexError(m, name_matches) == name_matches /\ Len(m.terms) = 0

\* Mutant: the first term instead of the last.
first_term(m) == m.terms[1]

\* m["terms"][-1] of a list that is not empty
most_recent_term(m) == m.terms[Len(m.terms)]

\* Lines 141-144
OfficeMatches(m, member_pictorial) ==
    /\ most_recent_term(m).state = member_pictorial.stateId
    /\ most_recent_term(m).type = mType(member_pictorial)

\* Line 100
EmptyMatches == <<>>

\* Lines 101-145: the loop from candidate k on.  loc holds the locals:
\* matches (references to the appended candidates, as their positions in
\* legislators_current), rules (per candidate visited, the assignment
\* that set name_matches) and raised (the exception that left the loop).
RECURSIVE MatchLoop(_, _, _, _)
MatchLoop(member_pictorial, legislators, k, loc) ==
    IF k > Len(legislators)
    THEN loc
    ELSE LET m == legislators[k]
             rule == NameRule(m, member_pictorial)
             name_matches == rule # "none"
             visited == [loc EXCEPT !.rules = Append(@, rule)]
         IN  IF RaisesIndexError(m, name_matches)
             THEN [visited EXCEPT !.raised = "IndexError"]
             ELSE IF name_matches /\ OfficeMatches(m, member_pictorial)
             THEN MatchLoop(member_pictorial, legislators, k + 1,
                            [visited EXCEPT !.matches = Append(@, k)])
             ELSE MatchLoop(member_pictorial, legislators, k + 1, visited)

\* Mutant: several matches are resolved to the first of them.
MatchResultFirstOfMany(legislators, loc) ==
    IF loc.raised # "none"
    THEN [kind |-> loc.raised]
    ELSE IF Len(loc.matches) >= 1
    THEN [kind |-> "return",
          bioguide |-> legislators[loc.matches[1]].id.bioguide]
    ELSE [kind |-> "ValueError",
          message |-> "No Bioguide ID match found"]

\* Mutant: several matches are reported as no match.
MatchResultOneMessage(legislators, loc) ==
    IF loc.raised # "none"
    THEN [kind |-> loc.raised]
    ELSE IF Len(loc.matches) = 1
    THEN [kind |-> "return",
          bioguide |-> legislators[loc.matches[1]].id.bioguide]
    ELSE [kind |-> "ValueError",
          message |-> "No Bioguide ID match found"]

\* Lines 147-153: what the call ends in, from the locals after the loop.
MatchResult(legislators, loc) ==
    IF loc.raised # "none"
    THEN [kind |-> loc.raised]
    ELSE IF Len(loc.matches) = 1
    THEN [kind |-> "return",
          bioguide |-> legislators[loc.matches[1]].id.bioguide]
    ELSE IF Len(loc.matches) # 0
    THEN [kind |-> "ValueError",
          message |-> "Multiple Bioguide ID matches found"]
    ELSE [kind |-> "ValueError",
          message |-> "No Bioguide ID match found"]

\* The locals of a whole call.
MatchLocals(member_pictorial, legislators) ==
    MatchLoop(member_pictorial, legislators, 1,
              [matches |-> EmptyMatches, rules |-> <<>>, raised |-> "none"])

match_bioguide_id(member_pictorial, legislators) ==
    MatchResult(legislators, MatchLocals(member_pictorial, legislators))

(***************************************************************************)
(* The records that are enumerated.                                        *)
(***************************************************************************)
States == {"NJ", "NY"}
Districts == {1, 2}

\* A term of the congress-legislators dataset: only a "rep" term has a
\* district.
Terms(districts) ==
    {[type |-> "sen", state |-> s] : s \in States}
        \cup {[type |-> "rep", state |-> s, district |-> d] :
                  s \in States, d \in districts}

\* The terms histories of minTerms..MaxTerms terms.
TermHistories(terms, minTerms) ==
    UNION {[1..n -> terms] : n \in minTerms..MaxTerms}

\* name dicts: "middle" and "nickname" are optional keys.
CandidateNames(firsts, lasts, middles, nicknames) ==
    {[first |-> f, last |-> l] : f \in firsts, l \in lasts}
        \cup {[first |-> f, last |-> l, middle |-> mid] :
                  f \in firsts, l \in lasts, mid \in middles}
        \cup {[first |-> f, last |-> l, nickname |-> nick] :
                  f \in firsts, l \in lasts, nick \in nicknames}
        \cup {[first |-> f, last |-> l, middle |-> mid, nickname |-> nick] :
                  f \in firsts, l \in lasts, mid \in middles,
                  nick \in nicknames}

\* A legislators list: the k-th gets the k-th Bioguide ID.
BioguideID(k) == "B00000" \o ToString(k)
Legislators(names, histories, n) ==
    {[k \in 1..n |-> [id |-> [bioguide |-> BioguideID(k)],
                      name |-> c[k][1], terms |-> c[k][2]]] :
        c \in [1..n -> names \X histories]}

NoPhotoUrl == "https://memberguide.gpo.gov/pictorialimages/nophotoimage.jpg"
PhotoUrl == "https://memberguide.gpo.gov/pictorialimages/118_SR_NJ_Dan.jpg"
\* "nophotoimage.jpg" in imageUrl, over the two URLs that are enumerated
IsNoPhoto(imageUrl) == imageUrl = NoPhotoUrl

\* A pictorial entry; only a Representative has a district.
Senators(firsts, lasts, urls) ==
    {[firstName |-> f, lastName |-> l, memberType |-> "Senator",
      stateId |-> "NJ", imageUrl |-> u] :
        f \in firsts, l \in lasts, u \in urls}
Representatives(firsts, lasts, urls, districts) ==
    {[firstName |-> f, lastName |-> l, memberType |-> "Representative",
      stateId |-> "NJ", district |-> d, imageUrl |-> u] :
        f \in firsts, l \in lasts, u \in urls, d \in districts}

\* Three names for a candidate of the entry (Dan, Daniel): one the
\* direct-order test accepts, one the swapped-order test accepts (its last
\* name stripped of its space), one neither.
DirectName == [first |-> Dan, last |-> Daniel]
SwappedName == [first |-> Daniel, last |-> DaSpaceN]
OtherName == [first |-> dan, last |-> Daniel]
ThreeNames == {DirectName, SwappedName, OtherName}

\* One entry against one candidate, over every combination of names.
NameCases ==
    {[members |-> <<s>>, legislators |-> l] :
        s \in Senators(Names, Names, {PhotoUrl}),
        l \in Legislators(CandidateNames(Names, Names, Names, Names),
                          [1..1 -> Terms({1})], 1)}

\* One entry against one candidate, over every terms history.
TermCases(minTerms) ==
    {[members |-> <<s>>, legislators |-> l] :
        s \in Senators({Dan}, {Daniel}, {PhotoUrl})
                 \cup Representatives({Dan}, {Daniel}, {PhotoUrl}, Districts),
        l \in Legislators(ThreeNames,
                          TermHistories(Terms(Districts), minTerms), 1)}

\* A whole run: up to MaxMembers entries against up to MaxLegislators
\* candidates.
RunHistories(minTerms) ==
    {<<t>> : t \in {x \in Terms({1}) : x.state = "NJ"}}
        \cup (IF minTerms = 0 THEN {<<>>} ELSE {})
RunCases(minTerms) ==
    {[members |-> s, legislators |-> l] :
        s \in UNION {[1..n -> Senators({Dan}, {Daniel}, {PhotoUrl, NoPhotoUrl})
                                \cup Representatives({Dan}, {Daniel},
                                                     {PhotoUrl, NoPhotoUrl}, {1})] :
                        n \in 0..MaxMembers},
        l \in UNION {Legislators(ThreeNames, RunHistories(minTerms), n) :
                        n \in 0..MaxLegislators}}

Inputs(minTerms) == NameCases \cup TermCases(minTerms) \cup RunCases(minTerms)

(***************************************************************************)
(* The script's main block, lines 249-268.                                 *)
(***************************************************************************)
VARIABLES
    legislators_current,  \* the list get_legislators_current returned
    members_pictorial,    \* the list get_members_pictorial returned
    pc,                   \* "matching": in the loop of line 254;
                          \* "download": at line 268; "crashed": an
                          \* exception left the script; "downloading":
                          \* in the loop of line 186; "report": at line
                          \* 270; "done": past line 276
    processed,            \* how many members the loop has been through
    photo_list,           \* line 252
    errors,               \* line 253
    results,              \* per member processed, what its call of
                          \* match_bioguide_id ended in ("no call" if none)
    rules,                \* the latest call: per candidate, the assignment
                          \* that set name_matches
    matches,              \* the latest call: its list matches
    args_test,            \* args.test (line 238)
    args_delay,           \* args.delay (line 230)
    outdir_exists,        \* os.path.exists(outdir)
    files,                \* the files of outdir: identifier of a
                          \* <identifier>.jpg |-> its content
    metadata,             \* the identifiers save_metadata wrote a sidecar
                          \* file for in this run, in order
    position,             \* how many entries the loop of line 186 has
                          \* been through
    ok,                   \* download_photos.ok
    last_request_time,    \* download_photos.last_request_time: <<>> is
                          \* None, <<t>> a time
    clock,                \* datetime.datetime.now(), in seconds
    requests,             \* the calls of download_file in this run, in
                          \* order, each with the index of its entry, the
                          \* time pause was called and the time it
                          \* returned
    number,               \* line 268: <<>> until download_photos
                          \* returned, then <<its value>>
    resized,              \* resize_photos was called (line 271)
    errors_json           \* <<>> or <<what line 276 dumped>>

\* The variables of download_photos and of lines 268-276.
download_vars == <<args_test, args_delay, outdir_exists, files, metadata,
                   position, ok, last_request_time, clock, requests, number,
                   resized, errors_json>>

vars == <<legislators_current, members_pictorial, pc, processed, photo_list,
          errors, results, rules, matches, download_vars>>

\* Line 234: the default of --delay.
DefaultDelay == 5

\* No file: an outdir that does not exist, or is empty.
NoFiles == [n \in {} |-> ""]

\* The command line (lines 230-243) and the output directory the script
\* starts with; nothing of download_photos has run.
InitDownload(test, delay, exists, present) ==
    /\ args_test = test
    /\ args_delay = delay
    /\ outdir_exists = exists
    /\ files = present
    /\ metadata = <<>>
    /\ position = 0
    /\ ok = 0
    /\ last_request_time = <<>>
    /\ clock = 0
    /\ requests = <<>>
    /\ number = <<>>
    /\ resized = FALSE
    /\ errors_json = <<>>

InitWith(minTerms) ==
    /\ \E input \in Inputs(minTerms) :
           /\ legislators_current = input.legislators
           /\ members_pictorial = input.members
    /\ InitDownload(FALSE, DefaultDelay, FALSE, NoFiles)
    /\ pc = "matching"
    /\ processed = 0
    /\ photo_list = <<>>
    /\ errors = <<>>
    /\ results = <<>>
    /\ rules = <<>>
    /\ matches = <<>>

\* Every candidate has a most recent term (the dataset's invariant).
Init == InitWith(1)

\* A candidate's terms may be the empty list.
InitAnyTerms == InitWith(0)

\* Mutant: the call stores the stripped last name in the candidate.
LegislatorsWithStrippedLastNames(legislators) ==
    [k \in 1..Len(legislators) |->
        [legislators[k] EXCEPT !.name.last = RemoveSpaces(@)]]

\* What a call of match_bioguide_id leaves of the list it was given: no
\* statement of lines 89-153 assigns to a candidate or to the list
\* (str.replace returns a new str).
LegislatorsAfterCall(legislators) == legislators

\* Mutant: the ValueError is not caught.
AfterCallValueErrorUncaught(kind) ==
    IF kind = "return" THEN "matching" ELSE "crashed"

\* Lines 260-266: where the script is after the call.  `except ValueError`
\* goes on with the loop; any other exception leaves the script.
AfterCall(kind) ==
    IF kind \in {"return", "ValueError"} THEN "matching" ELSE "crashed"

\* Lines 255-258
NoPhotoAvailable ==
    /\ pc = "matching"
    /\ processed < Len(members_pictorial)
    /\ LET m == members_pictorial[processed + 1]
       IN  /\ IsNoPhoto(m.imageUrl)
           /\ errors' = Append(errors, <<"No photo available", m>>)
           /\ results' = Append(results, [kind |-> "no call"])
    /\ processed' = processed + 1
    /\ UNCHANGED <<legislators_current, members_pictorial, pc, photo_list,
                   rules, matches, download_vars>>

\* Lines 259-266: the call of match_bioguide_id and what the try
\* statement does with its result.  Only ValueError is caught.
MatchMember ==
    /\ pc = "matching"
    /\ processed < Len(members_pictorial)
    /\ LET m == members_pictorial[processed + 1]
           loc == MatchLocals(m, legislators_current)
           result == MatchResult(legislators_current, loc)
       IN  /\ ~IsNoPhoto(m.imageUrl)
           /\ rules' = loc.rules
           /\ matches' = loc.matches
           /\ results' = Append(results, result)
           /\ photo_list' = IF result.kind = "return"
                            THEN Append(photo_list,
                                        <<result.bioguide, m.imageUrl>>)
                            ELSE photo_list
           /\ errors' = IF result.kind = "ValueError"
                        THEN Append(errors, <<"No Bioguide ID match", m>>)
                        ELSE errors
           /\ pc' = AfterCall(result.kind)
    /\ processed' = processed + 1
    /\ legislators_current' = LegislatorsAfterCall(legislators_current)
    /\ UNCHANGED <<members_pictorial, download_vars>>

\* Line 268: the loop is through, download_photos is called.
MatchingDone ==
    /\ pc = "matching"
    /\ processed = Len(members_pictorial)
    /\ pc' = "download"
    /\ UNCHANGED <<legislators_current, members_pictorial, processed,
                   photo_list, errors, results, rules, matches, download_vars>>

Next == NoPhotoAvailable \/ MatchMember \/ MatchingDone

Spec == Init /\ [][Next]_vars

SpecAnyTerms == InitAnyTerms /\ [][Next]_vars

(***************************************************************************)
(* pause, save_metadata, download_file and download_photos, lines 35-46    *)
(* and 156-203.  Times are whole seconds.                                  *)
(***************************************************************************)
MaxDelay == 2      \* --delay is 0..MaxDelay
MaxElapsed == 2    \* a call of download_file takes 0..MaxElapsed seconds
MaxOversleep == 1  \* time.sleep returns 0..MaxOversleep seconds late

\* Python's None, for last_request_time
None == <<>>

\* Mutant: pause returns at once.
pause_without_sleep(last, delay, now, oversleep) == now

\* Lines 35-46: the time pause returns, called at time now.  time.sleep
\* suspends for at least the time it is given.
pause(last, delay, now, oversleep) ==
    IF last = None
    THEN now
    ELSE LET delta == now - last[1]
         IN  IF delta < delay
             THEN now + (delay - delta) + oversleep
             ELSE now

\* Line 189: os.path.join(outdir, bioguide_id + ".jpg"), a name in outdir
Filename(bioguide_id) == bioguide_id \o ".jpg"

\* Mutant: no file is ever found.
isfile_never(fs, filename) == FALSE

\* Line 190: os.path.isfile(filename)
isfile(fs, filename) == filename \in DOMAIN fs

\* open(filename, 'wb') and the writes of urlretrieve
WriteFile(fs, filename, content) ==
    [n \in DOMAIN fs \cup {filename} |->
        IF n = filename THEN content ELSE fs[n]]

\* Mutant: the rejected file stays.
unlink_nothing(fs, filename) == fs

\* Line 174: os.unlink(fn)
unlink(fs, filename) == [n \in DOMAIN fs \ {filename} |-> fs[n]]

\* What the server may answer with, as far as the code tells answers apart
ContentTypes == {"image/jpeg", "image/png", "text/html"}

\* How a call of urlretrieve (line 168) can end: it returns the headers of
\* an answer, or urlopen raises HTTPError (an error status) or URLError
\* (no answer).
Responses ==
    {[raises |-> "none", content_type |-> t] : t \in ContentTypes}
        \cup {[raises |-> "HTTPError"], [raises |-> "URLError"]}

\* Mutant: nothing is saved.
urlretrieve_saves_nothing(fs, url, outfile, response) == fs

\* Line 168: urlretrieve saves the content of an answer in outfile; when
\* urlopen raises, no file has been opened.
urlretrieve(fs, url, outfile, response) ==
    IF response.raises = "none" THEN WriteFile(fs, outfile, url) ELSE fs

\* Line 173
NotJpeg(response) == response.content_type # "image/jpeg"

\* Lines 166-175: the exception a call of download_file ends in ("none"
\* when it returns).  Line 175 calls HTTPError() without the five
\* arguments its constructor requires, which raises TypeError.
download_file_raises(response) ==
    IF response.raises # "none"
    THEN response.raises
    ELSE IF NotJpeg(response) THEN "TypeError" ELSE "none"

\* Lines 166-175: the files of outdir after the call
download_file(fs, url, outfile, response) ==
    LET saved == urlretrieve(fs, url, outfile, response)
    IN  IF response.raises = "none" /\ NotJpeg(response)
        THEN unlink(saved, outfile)
        ELSE saved

\* Line 196: except HTTPError
Caught(exception) == exception = "HTTPError"

\* Mutant: the else clause runs after a caught exception too.
ElseClauseAfterExcept(exception) == exception \in {"none", "HTTPError"}

\* Line 198: the else clause of the try statement runs when no exception
\* was raised.
ElseClause(exception) == exception = "none"

\* Lines 156-163: save_metadata writes congress/metadata/<bioguide_id>.yaml
save_metadata(written, bioguide_id) == Append(written, bioguide_id)

\* Mutant: test mode is ignored.
SavesImagesAlways(test) == TRUE

\* Line 192: elif not args.test
SavesImages(test) == ~test

\* The entry the loop of line 186 is at
Entry == photo_list[position + 1]

\* Lines 179-184: download_photos is entered.
EnterDownloadPhotos ==
    /\ pc = "download"
    /\ pc' = "downloading"
    /\ last_request_time' = None
    /\ outdir_exists' = TRUE
    /\ ok' = 0
    /\ UNCHANGED <<legislators_current, members_pictorial, processed,
                   photo_list, errors, results, rules, matches, args_test,
                   args_delay, files, metadata, position, clock, requests,
                   number, resized, errors_json>>

\* Lines 190-191: the image already exists.
ImageAlreadyExists ==
    /\ pc = "downloading"
    /\ position < Len(photo_list)
    /\ isfile(files, Filename(Entry[1]))
    /\ position' = position + 1
    /\ UNCHANGED <<legislators_current, members_pictorial, pc, processed,
                   photo_list, errors, results, rules, matches, args_test,
                   args_delay, outdir_exists, files, metadata, ok,
                   last_request_time, clock, requests, number, resized,
                   errors_json>>

\* Line 192, test mode: neither branch of the if statement runs.
TestModeEntry ==
    /\ pc = "downloading"
    /\ position < Len(photo_list)
    /\ ~isfile(files, Filename(Entry[1]))
    /\ ~SavesImages(args_test)
    /\ position' = position + 1
    /\ UNCHANGED <<legislators_current, members_pictorial, pc, processed,
                   photo_list, errors, results, rules, matches, args_test,
                   args_delay, outdir_exists, files, metadata, ok,
                   last_request_time, clock, requests, number, resized,
                   errors_json>>

\* Lines 193-200: pause, download_file and what the try statement does
\* with its outcome.  An exception that is not caught leaves the loop and
\* the script at this entry.
DownloadEntry ==
    /\ pc = "downloading"
    /\ position < Len(photo_list)
    /\ ~isfile(files, Filename(Entry[1]))
    /\ SavesImages(args_test)
    /\ \E response \in Responses, elapsed \in 0..MaxElapsed,
          oversleep \in 0..MaxOversleep :
           LET bioguide_id == Entry[1]
               photo_url == Entry[2]
               filename == Filename(bioguide_id)
               at == pause(last_request_time, args_delay, clock, oversleep)
               raised == download_file_raises(response)
           IN  /\ last_request_time' = <<at>>
               /\ clock' = at + elapsed
               /\ requests' = Append(requests,
                                     [entry |-> position + 1,
                                      bioguide_id |-> bioguide_id,
                                      photo_url |-> photo_url,
                                      called |-> clock,
                                      at |-> at,
                                      response |-> response])
               /\ files' = download_file(files, photo_url, filename, response)
               /\ metadata' = IF ElseClause(raised)
                              THEN save_metadata(metadata, bioguide_id)
                              ELSE metadata
               /\ ok' = IF ElseClause(raised) THEN ok + 1 ELSE ok
               /\ pc' = IF raised = "none" \/ Caught(raised)
                        THEN "downloading"
                        ELSE "crashed"
               /\ position' = IF raised = "none" \/ Caught(raised)
                              THEN position + 1
                              ELSE position
    /\ UNCHANGED <<legislators_current, members_pictorial, processed,
                   photo_list, errors, results, rules, matches, args_test,
                   args_delay, outdir_exists, number, resized, errors_json>>

\* Lines 202-203 and 268: download_photos returns ok.
ReturnOk ==
    /\ pc = "downloading"
    /\ position = Len(photo_list)
    /\ number' = <<ok>>
    /\ pc' = "report"
    /\ UNCHANGED <<legislators_current, members_pictorial, processed,
                   photo_list, errors, results, rules, matches, args_test,
                   args_delay, outdir_exists, files, metadata, position, ok,
                   last_request_time, clock, requests, resized, errors_json>>

\* Lines 270-276: resize_photos if a photo was downloaded, errors.json if
\* a record had an error.
EndOfRun ==
    /\ pc = "report"
    /\ resized' = (number[1] # 0)
    /\ errors_json' = IF Len(errors) # 0 THEN <<errors>> ELSE <<>>
    /\ pc' = "done"
    /\ UNCHANGED <<legislators_current, members_pictorial, processed,
                   photo_list, errors, results, rules, matches, args_test,
                   args_delay, outdir_exists, files, metadata, position, ok,
                   last_request_time, clock, requests, number>>

\* The content of a photo an earlier run saved
Archived == "a photo saved by an earlier run"

\* An outdir an earlier run left: photos of some of the candidates.
OutdirFiles ==
    {[n \in present |-> Archived] :
        present \in SUBSET {Filename(BioguideID(k)) : k \in 1..MaxLegislators}}

\* The runs of RunCases(1) whose candidates all match the entries by name.
DownloadCases ==
    {[members |-> s, legislators |-> l] :
        s \in UNION {[1..n -> Senators({Dan}, {Daniel}, {PhotoUrl, NoPhotoUrl})
                                \cup Representatives({Dan}, {Daniel},
                                                     {PhotoUrl, NoPhotoUrl}, {1})] :
                        n \in 0..MaxMembers},
        l \in UNION {Legislators({DirectName}, RunHistories(1), n) :
                        n \in 0..MaxLegislators}}

\* A whole run of the script, over its command line and its output
\* directory.
InitRun ==
    /\ \E input \in DownloadCases :
           /\ legislators_current = input.legislators
           /\ members_pictorial = input.members
    /\ \E test \in BOOLEAN, delay \in 0..MaxDelay, exists \in BOOLEAN,
          present \in OutdirFiles :
           /\ ~exists => present = NoFiles
           /\ InitDownload(test, delay, exists, present)
    /\ pc = "matching"
    /\ processed = 0
    /\ photo_list = <<>>
    /\ errors = <<>>
    /\ results = <<>>
    /\ rules = <<>>
    /\ matches = <<>>

NextRun ==
    \/ NoPhotoAvailable
    \/ MatchMember
    \/ MatchingDone
    \/ EnterDownloadPhotos
    \/ ImageAlreadyExists
    \/ TestModeEntry
    \/ DownloadEntry
    \/ ReturnOk
    \/ EndOfRun

SpecRun == InitRun /\ [][NextRun]_vars

(***************************************************************************)
(* The contract of the Matcher, in the words of its specification.  These  *)
(* definitions are written from the contract and use none of the           *)
(* definitions above that model match_bioguide_id.                         *)
(***************************************************************************)
\* The latest step of the loop called match_bioguide_id.
Called == processed > 0 /\ results[processed].kind # "no call"
\* The source record of the latest call, and what the call ended in.
Source == members_pictorial[processed]
Outcome == results[processed]
\* The candidates the latest call went through.
Visited == 1..Len(rules)

NotFound == [kind |-> "ValueError", message |-> "No Bioguide ID match found"]
Ambiguous ==
    [kind |-> "ValueError", message |-> "Multiple Bioguide ID matches found"]
IsIdentifier(outcome) == outcome.kind = "return"

RECURSIVE WithoutSpaces(_)
WithoutSpaces(s) ==
    IF s = <<>> THEN <<>>
    ELSE IF Head(s) = " " THEN WithoutSpaces(Tail(s))
    ELSE <<Head(s)>> \o WithoutSpaces(Tail(s))

HasSpace(s) == \E i \in 1..Len(s) : s[i] = " "

IsSubstring(a, b) ==
    \E i \in 1..(Len(b) + 1) :
        /\ i + Len(a) - 1 <= Len(b)
        /\ \A j \in 1..Len(a) : b[i + j - 1] = a[j]

HasNickname(c, n) == "nickname" \in DOMAIN c.name /\ c.name.nickname = n

\* The fixed nickname table, as pairs <<nickname, formal name>>.
NicknameTable ==
    {<<Nick, Nicolas>>, <<Daniel, Dan>>, <<Mike, Michael>>,
     <<Richard, Rich>>, <<Christopher, Chris>>}

Rule1a(c, src) == c.name.first = src.firstName
Rule1b(c, src) == HasNickname(c, src.firstName)
Rule1c(c, src) == IsSubstring(src.firstName, c.name.first)
Rule1d(c, src) ==
    "middle" \in DOMAIN c.name /\ IsSubstring(src.firstName, c.name.middle)
Rule1e(c, src) == <<src.firstName, c.name.first>> \in NicknameTable

DirectOrderRule(c, src) ==
    /\ WithoutSpaces(c.name.last) = src.lastName
    /\ \/ Rule1a(c, src)
       \/ Rule1b(c, src)
       \/ Rule1c(c, src)
       \/ Rule1d(c, src)
       \/ Rule1e(c, src)

SwappedOrderRule(c, src) ==
    /\ c.name.first = src.lastName
    /\ \/ WithoutSpaces(c.name.last) = src.firstName
       \/ HasNickname(c, src.firstName)

NameEquivalent(c, src) == DirectOrderRule(c, src) \/ SwappedOrderRule(c, src)

Chamber(src) ==
    CASE src.memberType = "Senator" -> "sen"
      [] src.memberType = "Representative" -> "rep"

OfficeConsistent(c, src) ==
    /\ c.terms # <<>>
    /\ c.terms[Len(c.terms)].state = src.stateId
    /\ c.terms[Len(c.terms)].type = Chamber(src)

\* The positions of the candidates that pass both tests.
Qualifying(candidates, src) ==
    {k \in 1..Len(candidates) :
        NameEquivalent(candidates[k], src) /\ OfficeConsistent(candidates[k], src)}

\* The positions in the latest call's list matches.
Matched == {matches[i] : i \in 1..Len(matches)}

(***************************************************************************)
(* C1                                                                      *)
(***************************************************************************)
\* C1: a call of match_bioguide_id returns an identifier if and only if
\* exactly one candidate passes both the name-equivalence test and the
\* office-consistency test, and the identifier returned is the Bioguide ID of
\* that candidate.
C1_ExactlyOneReturnsItsId ==
    Called =>
        LET q == Qualifying(legislators_current, Source)
        IN  /\ IsIdentifier(Outcome) <=> Cardinality(q) = 1
            /\ IsIdentifier(Outcome) =>
                   \A k \in q :
                       Outcome.bioguide = legislators_current[k].id.bioguide

\* A call among two candidates, the second the only one to pass both tests,
\* has returned the second's identifier.
C1_Witness ==
    /\ Called
    /\ Len(legislators_current) = 2
    /\ Qualifying(legislators_current, Source) = {2}
    /\ Outcome = [kind |-> "return", bioguide |-> BioguideID(2)]

(***************************************************************************)
(* C2                                                                      *)
(***************************************************************************)
\* C2: when no candidate passes both tests the call fails with NotFound, when
\* more than one does it fails with Ambiguous; the two failures differ and
\* neither returns an identifier.
C2_NotFoundAndAmbiguous ==
    Called =>
        LET q == Qualifying(legislators_current, Source)
        IN  /\ Cardinality(q) = 0 => Outcome = NotFound
            /\ Cardinality(q) > 1 => Outcome = Ambiguous
            /\ Cardinality(q) # 1 => ~IsIdentifier(Outcome)
            /\ NotFound # Ambiguous

\* A call with two candidates passing both tests has failed with Ambiguous.
C2_Witness ==
    /\ Called
    /\ Cardinality(Qualifying(legislators_current, Source)) = 2
    /\ Outcome = Ambiguous

(***************************************************************************)
(* C3                                                                      *)
(***************************************************************************)
\* C3: a candidate passes the direct-order rule (one of lines 110, 113, 119,
\* 126 sets name_matches) if and only if its last name without spaces equals
\* the source's lastName and one of rules 1a-1e holds; the branches are tried
\* in the order 1a/1b, 1c, 1d, 1e.
C3_DirectOrder ==
    Called =>
        \A k \in Visited :
            LET c == legislators_current[k]
            IN  /\ rules[k] \notin {"none", "swapped"}
                       <=> DirectOrderRule(c, Source)
                /\ rules[k] = "first_or_nickname"
                       => Rule1a(c, Source) \/ Rule1b(c, Source)
                /\ rules[k] = "in_first" => Rule1c(c, Source)
                /\ rules[k] = "in_middle" => Rule1d(c, Source)
                /\ rules[k] = "common_nickname" => Rule1e(c, Source)

\* A call where the only rule of 1a-1e that holds is the nickname table's, and
\* the candidate was matched.
C3_Witness ==
    /\ Called
    /\ \E k \in Visited :
           LET c == legislators_current[k]
           IN  /\ rules[k] = "common_nickname"
               /\ Rule1e(c, Source)
               /\ ~Rule1a(c, Source) /\ ~Rule1b(c, Source)
               /\ ~Rule1c(c, Source) /\ ~Rule1d(c, Source)
               /\ k \in Matched

(***************************************************************************)
(* C4                                                                      *)
(***************************************************************************)
\* C4: a candidate that fails the direct-order rule passes the
\* name-equivalence test if and only if the swapped-order rule holds for it,
\* and a candidate that fails both rules is not among the matches, whatever
\* its most recent term.
C4_SwappedOrder ==
    Called =>
        \A k \in Visited :
            LET c == legislators_current[k]
            IN  /\ ~DirectOrderRule(c, Source)
                       => (rules[k] # "none" <=> SwappedOrderRule(c, Source))
                /\ ~DirectOrderRule(c, Source) /\ ~SwappedOrderRule(c, Source)
                       => rules[k] = "none" /\ k \notin Matched

\* A call matched a candidate by the swapped-order rule through its nickname
\* alone: the direct-order rule fails and the last name is not the source's
\* first name.
C4_Witness ==
    /\ Called
    /\ \E k \in Visited :
           LET c == legislators_current[k]
           IN  /\ ~DirectOrderRule(c, Source)
               /\ rules[k] = "swapped"
               /\ WithoutSpaces(c.name.last) # Source.firstName
               /\ k \in Matched

(***************************************************************************)
(* C5                                                                      *)
(***************************************************************************)
\* A term history with term j replaced, and a record with another district.
WithTerm(candidates, k, j, t) == [candidates EXCEPT ![k].terms[j] = t]
WithDistrict(record, d) ==
    IF "district" \in DOMAIN record THEN [record EXCEPT !.district = d]
    ELSE record
WithLastDistrict(candidates, k, d) ==
    LET n == Len(candidates[k].terms)
    IN  WithTerm(candidates, k, n, WithDistrict(candidates[k].terms[n], d))

\* C5: a name-matching candidate is among the matches if and only if the last
\* of its terms has the source's state and the type of the source's chamber;
\* replacing any earlier term, or any district (of the candidate's last term or
\* of the source), leaves what the call ends in unchanged.
C5_MostRecentTermOnly ==
    Called =>
        /\ \A k \in Visited :
               rules[k] # "none" =>
                   (k \in Matched
                        <=> OfficeConsistent(legislators_current[k], Source))
        /\ \A k \in 1..Len(legislators_current) :
               /\ \A j \in 1..(Len(legislators_current[k].terms) - 1) :
                      \A t \in Terms(Districts) :
                          match_bioguide_id(
                              Source, WithTerm(legislators_current, k, j, t))
                              = Outcome
               /\ \A d \in Districts :
                      match_bioguide_id(
                          Source, WithLastDistrict(legislators_current, k, d))
                          = Outcome
        /\ \A d \in Districts :
               match_bioguide_id(WithDistrict(Source, d), legislators_current)
                   = Outcome

\* A call matched a candidate whose earlier term is in another state and
\* chamber than the source, and whose last term is in another district.
C5_Witness ==
    /\ Called
    /\ \E k \in Matched :
           LET terms == legislators_current[k].terms
           IN  /\ Len(terms) = 2
               /\ terms[1].state # Source.stateId
               /\ terms[1].type # Chamber(Source)
               /\ "district" \in DOMAIN terms[2]
               /\ terms[2].district # Source.district
    /\ IsIdentifier(Outcome)

(***************************************************************************)
(* C6                                                                      *)
(***************************************************************************)
\* C6, as claimed: for every source record and every candidate collection,
\* a name-matching candidate with an empty terms sequence and candidates
\* without middle or nickname included, the call ends in an identifier, in
\* NotFound or in Ambiguous, never in another error.
C6_AlwaysOneOfThreeOutcomes ==
    Called => IsIdentifier(Outcome) \/ Outcome = NotFound \/ Outcome = Ambiguous

\* Some candidate passes the name-equivalence test and has no term.
NameMatchWithoutTerms(candidates, src) ==
    \E k \in 1..Len(candidates) :
        NameEquivalent(candidates[k], src) /\ candidates[k].terms = <<>>

\* C6, amended: the call ends in an IndexError if and only if some
\* name-matching candidate has an empty terms sequence; in every other case
\* (candidates without middle or nickname, and candidates with an empty terms
\* sequence that do not match by name, included) it ends in an identifier, in
\* NotFound or in Ambiguous.
C6_IndexErrorIffNameMatchWithoutTerms ==
    Called =>
        /\ Outcome = [kind |-> "IndexError"]
               <=> NameMatchWithoutTerms(legislators_current, Source)
        /\ ~NameMatchWithoutTerms(legislators_current, Source)
               => IsIdentifier(Outcome) \/ Outcome = NotFound
                      \/ Outcome = Ambiguous

\* A call with a name-matching candidate without terms, middle and nickname
\* has ended in an IndexError, and the script with it.
C6_Witness ==
    /\ Called
    /\ \E k \in 1..Len(legislators_current) :
           /\ NameEquivalent(legislators_current[k], Source)
           /\ legislators_current[k].terms = <<>>
           /\ DOMAIN legislators_current[k].name = {"first", "last"}
    /\ Outcome = [kind |-> "IndexError"]
    /\ pc = "crashed"

(***************************************************************************)
(* C7                                                                      *)
(***************************************************************************)
\* The source has the candidate's first and last name.
SameNames(c, src) ==
    c.name.first = src.firstName /\ c.name.last = src.lastName

\* C7, as claimed: for every candidate, those whose last name contains a
\* space included, a source with the candidate's first and last name passes
\* the direct-order rule by its first branch (rule 1a).
C7_ReflexiveForAllCandidates ==
    Called =>
        \A k \in Visited :
            SameNames(legislators_current[k], Source)
                => rules[k] = "first_or_nickname"

\* C7, amended: a source with the candidate's first and last name passes the
\* direct-order rule by its first branch if and only if the candidate's last
\* name contains no space; when it contains one, the direct-order rule fails.
C7_ReflexiveIffNoSpaceInLastName ==
    Called =>
        \A k \in Visited :
            LET c == legislators_current[k]
            IN  SameNames(c, Source) =>
                    /\ ~HasSpace(c.name.last)
                           => rules[k] = "first_or_nickname"
                    /\ HasSpace(c.name.last)
                           => rules[k] \in {"none", "swapped"}

\* A call matched, by rule 1a alone, a candidate without nickname whose names
\* are the source's.
C7_Witness ==
    /\ Called
    /\ \E k \in Visited :
           LET c == legislators_current[k]
           IN  /\ SameNames(c, Source)
               /\ ~HasSpace(c.name.last)
               /\ "nickname" \notin DOMAIN c.name
               /\ c.name.first # c.name.last
               /\ rules[k] = "first_or_nickname"
               /\ k \in Matched

(***************************************************************************)
(* C8                                                                      *)
(***************************************************************************)
\* The candidate matches in direct order and in swapped order.
BothWays(c, src) == DirectOrderRule(c, src) /\ SwappedOrderRule(c, src)

\* What the resolution policy makes of the positions q of the qualifying
\* candidates.
Resolution(candidates, q) ==
    IF Cardinality(q) = 1
    THEN [kind |-> "return",
          bioguide |-> candidates[CHOOSE k \in q : TRUE].id.bioguide]
    ELSE IF Cardinality(q) > 1 THEN Ambiguous
    ELSE NotFound

\* The positions that qualify when the swapped-order rule alone decides for
\* the candidates that match both ways.
QualifyingSwappedFirst(candidates, src) ==
    {k \in 1..Len(candidates) :
        /\ IF BothWays(candidates[k], src)
           THEN SwappedOrderRule(candidates[k], src)
           ELSE NameEquivalent(candidates[k], src)
        /\ OfficeConsistent(candidates[k], src)}

\* C8, as claimed: the swapped-order assignment is not made for a candidate
\* the direct-order rule matched, and this short-circuit is observable in the
\* result: with a candidate that matches both ways, the call ends otherwise
\* than it would if the swapped-order rule had decided for that candidate.
C8_ShortCircuitObservable ==
    Called =>
        /\ \A k \in Visited :
               rules[k] = "swapped"
                   => ~DirectOrderRule(legislators_current[k], Source)
        /\ (\E k \in Visited : BothWays(legislators_current[k], Source))
               => Outcome # Resolution(
                      legislators_current,
                      QualifyingSwappedFirst(legislators_current, Source))

\* C8, amended: the swapped-order assignment (line 134) is made only for a
\* candidate the direct-order rule did not match, so a candidate matching
\* both ways is matched by a direct-order branch; the short-circuit is not
\* observable in the result, since either rule only sets name_matches: the
\* name test passes iff one of the two rules holds, and the call ends as the
\* resolution policy says for the candidates that pass either rule.
C8_SwappedOnlyAfterDirectFailed ==
    Called =>
        /\ \A k \in Visited :
               LET c == legislators_current[k]
               IN  /\ rules[k] = "swapped" => ~DirectOrderRule(c, Source)
                   /\ BothWays(c, Source)
                          => rules[k] \notin {"none", "swapped"}
                   /\ rules[k] # "none" <=> NameEquivalent(c, Source)
        /\ Outcome = Resolution(legislators_current,
                                Qualifying(legislators_current, Source))

\* A call matched, by a direct-order branch, a candidate that matches both
\* ways: in direct order by its nickname, in swapped order by its last name.
C8_Witness ==
    /\ Called
    /\ \E k \in Visited :
           LET c == legislators_current[k]
           IN  /\ BothWays(c, Source)
               /\ ~Rule1a(c, Source)
               /\ Rule1b(c, Source)
               /\ rules[k] = "first_or_nickname"
               /\ k \in Matched

RECURSIVE ExpectedErrors(_)
ExpectedErrors(n) ==
    IF n = 0 THEN <<>>
    ELSE LET src == members_pictorial[n]
         IN  IF src.imageUrl = NoPhotoUrl
             THEN Append(ExpectedErrors(n - 1), <<"No photo available", src>>)
             ELSE IF Cardinality(Qualifying(legislators_current, src)) # 1
             THEN Append(ExpectedErrors(n - 1), <<"No Bioguide ID match", src>>)
             ELSE ExpectedErrors(n - 1)

RECURSIVE ExpectedPhotos(_)
ExpectedPhotos(n) ==
    IF n = 0 THEN <<>>
    ELSE LET src == members_pictorial[n]
             q == Qualifying(legislators_current, src)
         IN  IF src.imageUrl # NoPhotoUrl /\ Cardinality(q) = 1
             THEN Append(ExpectedPhotos(n - 1),
                         <<legislators_current[CHOOSE k \in q : TRUE].id.bioguide,
                           src.imageUrl>>)
             ELSE ExpectedPhotos(n - 1)

\* C10: a NotFound or Ambiguous failure does not stop the run: after one, a
\* step of the loop is enabled for the next source record; after n records
\* the error list holds each failed record once and the photo list each
\* resolved record once, in order, so that each of the n records is in exactly
\* one list; download_photos is reached only after every record.
C10_FailuresDoNotStopTheRun ==
    /\ pc # "crashed"
    /\ errors = ExpectedErrors(processed)
    /\ photo_list = ExpectedPhotos(processed)
    /\ Len(errors) + Len(photo_list) = processed
    /\ (/\ processed > 0
        /\ processed < Len(members_pictorial)
        /\ results[processed] \in {NotFound, Ambiguous})
           => pc = "matching" /\ ENABLED Next
    /\ pc = "download" => processed = Len(members_pictorial)

\* The loop is through two records: the first failed and is in the error
\* list, the second was resolved after it and is in the photo list.
C10_Witness ==
    /\ pc = "download"
    /\ processed = 2
    /\ results[1] \in {NotFound, Ambiguous}
    /\ IsIdentifier(results[2])
    /\ errors = <<<<"No Bioguide ID match", members_pictorial[1]>>>>
    /\ photo_list = <<<<results[2].bioguide, members_pictorial[2].imageUrl>>>>


(***************************************************************************)
(* Downloading: what the claims about download_photos speak of.            *)
(***************************************************************************)
\* The loop of line 186 is at an entry it has not been through.
AtEntry == pc = "downloading" /\ position < Len(photo_list)

\* The identifier of the k-th entry of the photo list
IdentifierOf(k) == photo_list[k][1]

\* <outdir>/<identifier>.jpg is a file of the output directory.
TargetExists(identifier) == (identifier \o ".jpg") \in DOMAIN files

\* The requests of this run for an identifier, as indices of the log
RequestsFor(identifier) ==
    {r \in 1..Len(requests) : requests[r].bioguide_id = identifier}

\* A request whose answer was saved as the photo
Succeeded(r) ==
    /\ requests[r].response.raises = "none"
    /\ requests[r].response.content_type = "image/jpeg"

\* C11: an entry whose target file exists when the loop reaches it is
\* skipped: the step that takes the loop past it issues no request, takes
\* no pause (no time is recorded, none passes), writes no sidecar file,
\* leaves every file of the output directory as it was and counts nothing.
C11_ExistingFileIsSkipped ==
    [][(AtEntry /\ TargetExists(IdentifierOf(position + 1)))
           => /\ position' = position + 1
              /\ pc' = "downloading"
              /\ requests' = requests
              /\ last_request_time' = last_request_time
              /\ clock' = clock
              /\ metadata' = metadata
              /\ files' = files
              /\ ok' = ok]_vars

\* C11 witness: outside test mode, a run of two entries ended; the file of
\* the first was there from an earlier run and is as it was, no request
\* was made for it, and the second was downloaded and counted.
C11_Witness ==
    /\ pc = "done"
    /\ ~args_test
    /\ Len(photo_list) = 2
    /\ IdentifierOf(1) # IdentifierOf(2)
    /\ TargetExists(IdentifierOf(1))
    /\ files[IdentifierOf(1) \o ".jpg"] = Archived
    /\ RequestsFor(IdentifierOf(1)) = {}
    /\ RequestsFor(IdentifierOf(2)) = {1}
    /\ metadata = <<IdentifierOf(2)>>
    /\ number = <<1>>

\* The server answered, and declared a content type that is not an image.
NotAnImage(response) ==
    /\ response.raises = "none"
    /\ response.content_type \notin {"image/jpeg", "image/png"}

\* A step of the run that makes a request
MakesRequest == Len(requests') = Len(requests) + 1

\* C12: when the answer to a request declares a content type that is not
\* an image, then after the call of download_file there is no file at the
\* target filename, no sidecar file has been written for the identifier
\* and the item has not been counted.
C12_NonImageIsDiscarded ==
    [][(MakesRequest /\ NotAnImage(requests'[Len(requests')].response))
           => /\ (requests'[Len(requests')].bioguide_id \o ".jpg")
                     \notin DOMAIN files'
              /\ metadata' = metadata
              /\ ok' = ok]_vars

\* C12 witness: the first photo was downloaded, the answer to the second
\* request declared text/html; the second target is no file, and the one
\* sidecar file and the count are those of the first.
C12_Witness ==
    /\ Len(requests) = 2
    /\ Succeeded(1)
    /\ NotAnImage(requests[2].response)
    /\ requests[1].bioguide_id # requests[2].bioguide_id
    /\ TargetExists(requests[1].bioguide_id)
    /\ ~TargetExists(requests[2].bioguide_id)
    /\ metadata = <<requests[1].bioguide_id>>
    /\ ok = 1

\* A request that failed: no answer, an error status, or an answer whose
\* declared content type download_file rejects
FailedRequest(r) == ~Succeeded(r)

\* C13: a network failure or a content-type failure for one photo is
\* per-item and non-fatal: after a failed request download_photos is
\* still in its loop or has returned its count, and the script goes on to
\* its end-of-run error report (it has not been left by an exception).
C13_DownloadFailuresAreNotFatal ==
    (\E r \in 1..Len(requests) : FailedRequest(r))
        => /\ pc \in {"downloading", "report", "done"}
           /\ pc = "downloading" => position >= Len(requests)
           /\ pc \in {"report", "done"} => number = <<ok>>

\* C14: within one run, the time pause recorded before a request is at
\* least `delay` seconds after the time it recorded before the request
\* before; the first request is not delayed (pause returns at the time it
\* is called); and the requests are made one after another in the order
\* of the photo list: each for a later entry than the one before, its
\* pause called no earlier than the one before was made, and each for the
\* identifier and the URL of its entry.
C14_RequestsAreSpacedAndOrdered ==
    /\ Len(requests) > 0 => requests[1].at = requests[1].called
    /\ \A r \in 1..Len(requests) :
           /\ requests[r].at >= requests[r].called
           /\ requests[r].entry \in 1..Len(photo_list)
           /\ requests[r].bioguide_id = photo_list[requests[r].entry][1]
           /\ requests[r].photo_url = photo_list[requests[r].entry][2]
    /\ \A r \in 2..Len(requests) :
           /\ requests[r].at >= requests[r - 1].at + args_delay
           /\ requests[r].called >= requests[r - 1].at
           /\ requests[r].entry > requests[r - 1].entry

\* C14 witness: with a delay of two seconds, the second request came up
\* less than two seconds after the time recorded for the first, and was
\* held back until two seconds after it.
C14_Witness ==
    /\ args_delay = 2
    /\ Len(requests) = 2
    /\ requests[2].called < requests[1].at + args_delay
    /\ requests[2].at = requests[1].at + args_delay
    /\ requests[2].at > requests[2].called

\* The requests of this run that were saved as a photo
SucceededRequests == {r \in 1..Len(requests) : Succeeded(r)}

\* C15: in test mode download_photos saves nothing: it makes no request,
\* the output directory holds no file that this run saved, no sidecar file
\* is written, nothing is counted, the value returned is 0 and
\* resize_photos is not run.
C15_TestModeSavesNothing ==
    args_test
        => /\ requests = <<>>
           /\ \A n \in DOMAIN files : files[n] = Archived
           /\ metadata = <<>>
           /\ ok = 0
           /\ number \in {<<>>, <<0>>}
           /\ ~resized

\* C15 witness: a run in test mode ended; of its two entries one had its
\* file from an earlier run and the other had none and still has none.
C15_Witness ==
    /\ args_test
    /\ pc = "done"
    /\ Len(photo_list) = 2
    /\ TargetExists(IdentifierOf(1))
    /\ ~TargetExists(IdentifierOf(2))
    /\ requests = <<>>
    /\ number = <<0>>
    /\ ~resized

\* The identifiers of the first n requests that succeeded, in order
RECURSIVE SavedIdentifiers(_)
SavedIdentifiers(n) ==
    IF n = 0
    THEN <<>>
    ELSE IF Succeeded(n)
         THEN Append(SavedIdentifiers(n - 1), requests[n].bioguide_id)
         ELSE SavedIdentifiers(n - 1)

Identifiers == {IdentifierOf(k) : k \in 1..Len(photo_list)}

\* C17: outside test mode, at most one download succeeds per identifier:
\* after a request for an identifier succeeded no later request is made
\* for it, and the count, and so the value returned, never exceeds the
\* number of distinct identifiers of the photo list.
C17_OneDownloadPerIdentifier ==
    ~args_test
        => /\ \A r \in SucceededRequests :
                  \A later \in (r + 1)..Len(requests) :
                      requests[later].bioguide_id # requests[r].bioguide_id
           /\ \A identifier \in Identifiers :
                  Cardinality(RequestsFor(identifier) \cap SucceededRequests) <= 1
           /\ ok <= Cardinality(Identifiers)
           /\ number # <<>> => number[1] <= Cardinality(Identifiers)

\* C17 witness: the photo list names one identifier twice; the first entry
\* was downloaded, the second was passed without a request, and 1 was
\* returned.
C17_Witness ==
    /\ ~args_test
    /\ pc = "done"
    /\ Len(photo_list) = 2
    /\ IdentifierOf(1) = IdentifierOf(2)
    /\ Len(requests) = 1
    /\ requests[1].entry = 1
    /\ Succeeded(1)
    /\ number = <<1>>

====
